---- MODULE Spec2Model ----
(***************************************************************************)
(* A model of sync.py: the batch driver (main), the per-project sync       *)
(* (sync_project, sync_release_project, sync_action_project), the version  *)
(* ledger (.version.json: needs_update, save_version_info) and the pattern *)
(* matcher (should_download_asset).                                        *)
(*                                                                         *)
(* File names and patterns are tuples of one-character strings, so that    *)
(* the regular-expression match and the ".zip" rule are computed the way   *)
(* the code computes them.  A target directory is a map from entry names   *)
(* to contents; the ledger is the entry named .version.json of that map.   *)
(***************************************************************************)
EXTENDS Integers, Sequences, FiniteSets, TLC

(***************************************************************************)
(* Bounds of the model.                                                    *)
(***************************************************************************)
MaxRuns == 2        \* number of times the tool is started in one behaviour
MaxTime == 2        \* publish instants are 1..MaxTime
MaxRunId == 2       \* workflow run identifiers are 1..MaxRunId
MaxNameLen == 2     \* length of the names should_download_asset is called with
MaxPatLen == 2      \* length of the patterns it is called with

(***************************************************************************)
(* Names.                                                                  *)
(***************************************************************************)
VersionFileName == <<".", "v", "e", "r", "s", "i", "o", "n", ".", "j", "s", "o", "n">>
DotZip == <<".", "z", "i", "p">>
NameA == <<"a">>
NameB == <<"b", ".", "Z", "I", "P">>
NameAZip == <<"a", ".", "z", "i", "p">>
NameOld == <<"o", "l", "d">>

\* The file lists an upstream candidate can carry.  GitHub renames release
\* assets with a leading period and the action path appends ".zip", so no
\* upstream name is saved under the ledger's name.
AssetLists == {<<NameA, NameB>>, <<NameAZip, NameA>>}

\* asset_patterns of a descriptor; <<>> stands for a descriptor without the key.
NoPatterns == <<>>
PatternChoices == {NoPatterns, <<<<"a", "*">>>>}

(***************************************************************************)
(* should_download_asset: re.match(pattern.replace('*', '.*'), asset_name) *)
(***************************************************************************)
RECURSIVE ReplaceStar(_)
ReplaceStar(pat) ==
    IF pat = <<>> THEN <<>>
    ELSE IF Head(pat) = "*" THEN <<".", "*">> \o ReplaceStar(Tail(pat))
    ELSE <<Head(pat)>> \o ReplaceStar(Tail(pat))

\* one regular-expression atom against one character
AtomMatch(atom, ch) == IF atom = "." THEN ch /= "\n" ELSE atom = ch

\* re.match: the expression matches a prefix of the name
RECURSIVE ReMatch(_, _)
ReMatch(re, s) ==
    IF re = <<>> THEN TRUE
    ELSE IF Len(re) >= 2 /\ re[2] = "*"
    THEN \/ ReMatch(Tail(Tail(re)), s)
         \/ (s /= <<>> /\ AtomMatch(re[1], Head(s)) /\ ReMatch(re, Tail(s)))
    ELSE s /= <<>> /\ AtomMatch(re[1], Head(s)) /\ ReMatch(Tail(re), Tail(s))

should_download_asset(asset_name, patterns) ==
    \E j \in 1..Len(patterns) : ReMatch(ReplaceStar(patterns[j]), asset_name)

\* mutant of DefaultPatterns: a default that selects by first letter
DefaultPatternsByLetter == <<<<"a", "*">>>>

\* project_config.get('asset_patterns', ['.*'])
DefaultPatterns == <<<<".", "*">>>>
asset_patterns(d) == IF d.patterns = NoPatterns THEN DefaultPatterns ELSE d.patterns

\* The calls of should_download_asset that are examined on their own: names
\* and patterns over a small alphabet.  Upstream names are never empty.
NameChars == {"a", "b", "."}
PatChars == {"a", ".", "*"}
SeqsUpTo(S, n) == UNION {[1..m -> S] : m \in 1..n}
CallNames == SeqsUpTo(NameChars, MaxNameLen)
CallPatterns == SeqsUpTo(PatChars, MaxPatLen)
CallPatternLists ==
    {NoPatterns} \cup {<<p>> : p \in CallPatterns}
                 \cup {<<p, q>> : p \in CallPatterns, q \in CallPatterns}
NoCall == [asset_name |-> <<>>, patterns |-> NoPatterns, result |-> "none"]
Calls == [asset_name : CallNames, patterns : CallPatternLists, result : {"none"}]

(***************************************************************************)
(* The saved file name.                                                    *)
(***************************************************************************)
LowerChar(c) == IF c = "Z" THEN "z" ELSE IF c = "I" THEN "i" ELSE IF c = "P" THEN "p" ELSE c
Lower(s) == [j \in 1..Len(s) |-> LowerChar(s[j])]
EndsWith(s, suf) ==
    /\ Len(s) >= Len(suf)
    /\ SubSeq(s, Len(s) - Len(suf) + 1, Len(s)) = suf

final_filename(artifact_name) ==
    IF ~EndsWith(Lower(artifact_name), DotZip) THEN artifact_name \o DotZip
    ELSE artifact_name

SavedName(type, name) == IF type = "action" THEN final_filename(name) ELSE name


(***************************************************************************)
(* Data.                                                                   *)
(***************************************************************************)
Instances == {1, 2}     \* invocations of the tool that may exist
TargetDirs == {1, 2}    \* project k syncs into target directory k
version_files == {VersionFileName}

\* A wire timestamp: "Z"-suffixed UTC, or a value fromisoformat rejects.
GoodStamps == [sec : 1..MaxTime, sfx : {"Z"}]
BadStamp == [sec |-> 0, sfx |-> "?"]
Stamps == GoodStamps \cup {BadStamp}
Parses(ts) == ts.sfx = "Z"
fromisoformat(ts) == ts.sec

Tags == {"v1", "v2"}
RunNumbers == {1, 2}

NoCand == [type |-> "none"]

\* What a repository can report as its latest release or latest run.  "big"
\* is a repository with a long history, "small" one with a short history.
Repos == {"big", "small"}
ReleasesOf(repo) ==
    IF repo = "big"
    THEN [type : {"release"}, tag_name : Tags, published_at : Stamps,
          assets : AssetLists]
    ELSE [type : {"release"}, tag_name : {"v1"},
          published_at : {[sec |-> 1, sfx |-> "Z"]}, assets : {<<NameA, NameB>>}]
RunsOf(repo) ==
    IF repo = "big"
    THEN [type : {"action"}, id : 1..MaxRunId, run_number : RunNumbers,
          assets : AssetLists]
    ELSE [type : {"action"}, id : {1}, run_number : {1},
          assets : {<<NameA, NameB>>}]
CandsOf(repo, type) == IF type = "release" THEN ReleasesOf(repo) ELSE RunsOf(repo)

\* Project descriptors of projects.yaml.  shape "nokey": a mapping without
\* 'target_dir'; shape "notmap": a list item that is not a mapping.
Types == {"release", "action", "unknown"}
OkDescs == [shape : {"ok"}, repo : Repos, type : Types, patterns : PatternChoices]
NoKeyDesc == [shape |-> "nokey", repo |-> "small", type |-> "release",
              patterns |-> NoPatterns]
NotMapDesc == [shape |-> "notmap", repo |-> "small", type |-> "release",
               patterns |-> NoPatterns]
Descs == OkDescs \cup {NoKeyDesc, NotMapDesc}

\* The configurations of a behaviour: one project tracking a big repository,
\* or two projects tracking small ones.
BigDescs == {d \in Descs : d.shape = "ok" => d.repo = "big"}
SmallDescs == {d \in Descs : d.shape = "ok" => (d.repo = "small" /\ d.patterns = NoPatterns)}
Configs == [1..1 -> BigDescs] \cup [1..2 -> SmallDescs]

\* File contents.
Absent == [t |-> "absent"]
Truncated == [t |-> "trunc"]
SubDir == [t |-> "dir"]
Blob(run, whole) == [t |-> "blob", src |-> run, whole |-> whole]

NoDir == [exists |-> FALSE, ents |-> <<>>]
JunkDir == [exists |-> TRUE, ents |-> (NameOld :> SubDir) @@ (NameA :> Blob(0, TRUE))]

\* mutant of Remove: the removal of one entry empties the directory
RemoveAll(ents, name) == [n \in {} |-> ents[n]]

Put(ents, name, content) == (name :> content) @@ ents
Remove(ents, name) == [n \in (DOMAIN ents) \ {name} |-> ents[n]]

(***************************************************************************)
(* The version ledger.                                                     *)
(***************************************************************************)
\* save_version_info: the record json.dump writes
version_info(info, info_type, now) ==
    IF info_type = "release"
    THEN [t |-> "json", type |-> "release", tag_name |-> info.tag_name,
          published_at |-> info.published_at, sync_time |-> now,
          assets |-> info.assets]
    ELSE [t |-> "json", type |-> "action", run_id |-> info.id,
          run_number |-> info.run_number, sync_time |-> now,
          assets |-> info.assets]

\* mutants of the two comparisons
LaterOrEqual(latest_time, current_time) == latest_time >= current_time
LaterReversed(latest_time, current_time) == current_time > latest_time
DiffersUpward(current_run_id, latest_run_id) == latest_run_id > current_run_id

\* the comparison of two parsed publish instants
Later(latest_time, current_time) == latest_time > current_time
\* the comparison of two run identifiers
Differs(current_run_id, latest_run_id) == current_run_id /= latest_run_id

\* mutant of needs_update: an entry of another kind is taken as up to date
needs_update_kind_blind(current, latest_info, info_type) ==
    IF current.t /= "json" THEN "raise"
    ELSE IF current.type /= info_type THEN "false"
    ELSE IF info_type = "release"
    THEN IF ~Parses(current.published_at) \/ ~Parses(latest_info.published_at)
         THEN "raise"
         ELSE IF latest_info.published_at.sec > current.published_at.sec
              THEN "true" ELSE "false"
    ELSE IF current.run_id /= latest_info.id THEN "true" ELSE "false"

\* needs_update on the content of an existing ledger file:
\* "true", "false", or "raise" when json.load or fromisoformat raises
needs_update(current, latest_info, info_type) ==
    IF current.t /= "json" THEN "raise"
    ELSE IF current.type /= info_type THEN "true"
    ELSE IF info_type = "release"
    THEN IF ~Parses(current.published_at) \/ ~Parses(latest_info.published_at)
         THEN "raise"
         ELSE IF Later(fromisoformat(latest_info.published_at),
                       fromisoformat(current.published_at))
              THEN "true" ELSE "false"
    ELSE IF Differs(current.run_id, latest_info.id) THEN "true" ELSE "false"

(***************************************************************************)
(* State.                                                                  *)
(***************************************************************************)
VARIABLES
    config,     \* the descriptors of projects.yaml, in order
    dir,        \* dir[t]: target directory t on disk
    runs,       \* how many times the tool has been started
    pc,         \* pc[r]: where invocation r is
    killed,     \* killed[r]: invocation r was killed where pc[r] says
    run,        \* run[r]: the start number of invocation r (its clock)
    k,          \* k[r]: index of the project main's loop is at
    cand,       \* cand[r]: release / action_info of the sync in progress
    todo,       \* todo[r]: items of os.listdir still to visit
    i,          \* i[r]: index in the candidate's file list
    ret,        \* ret[r]: value sync_project returned
    updated_projects,   \* updated_projects[r]
    exit_status,        \* exit_status[r]: -1 while none
    exc,        \* exc[r]: the exception being propagated, "" when none
    downloaded, \* downloaded[r]: indices of the files download_file saved;
                \* downloaded_count is its size
    prior,      \* prior[r]: the ledger file as the sync in progress found it
    log,        \* log[r]: outcome of each project main has finished with
    call        \* a call of should_download_asset: its arguments and result

prog_vars == <<config, dir, runs, pc, killed, run, k, cand, todo, i, ret,
               updated_projects, exit_status, exc, downloaded, prior, log>>
vars == <<prog_vars, call>>

disk == <<config, dir>>

\* get_version_info_path: the entry of the target directory holding the ledger
get_version_info_path == VersionFileName
LedgerExists(t) == dir[t].exists /\ get_version_info_path \in DOMAIN dir[t].ents
Ledger(t) == IF LedgerExists(t) THEN dir[t].ents[get_version_info_path] ELSE Absent

Desc(r) == config[k[r]]
Running(r) == ~killed[r] /\ pc[r] \notin {"idle", "exited"}

\* no invocation has been started
InitIdle ==
    /\ runs = 0
    /\ pc = [r \in Instances |-> "idle"]
    /\ killed = [r \in Instances |-> FALSE]
    /\ run = [r \in Instances |-> 0]
    /\ k = [r \in Instances |-> 1]
    /\ cand = [r \in Instances |-> NoCand]
    /\ todo = [r \in Instances |-> {}]
    /\ i = [r \in Instances |-> 1]
    /\ ret = [r \in Instances |-> FALSE]
    /\ updated_projects = [r \in Instances |-> <<>>]
    /\ exit_status = [r \in Instances |-> -1]
    /\ exc = [r \in Instances |-> ""]
    /\ downloaded = [r \in Instances |-> {}]
    /\ prior = [r \in Instances |-> Absent]
    /\ log = [r \in Instances |-> <<>>]

Init ==
    /\ config \in Configs
    /\ dir \in [TargetDirs -> {NoDir, JunkDir}]
    /\ \A t \in TargetDirs : (t > 1 \/ Len(config) > 1) => dir[t] = NoDir
    /\ InitIdle
    /\ call = NoCall


(***************************************************************************)
(* Helpers of the actions.                                                 *)
(***************************************************************************)
Set(f, r, v) == [f EXCEPT ![r] = v]
WriteDir(t, ents) == [dir EXCEPT ![t] = [exists |-> TRUE, ents |-> ents]]

\* exception e leaves the sync functions and reaches main's except clause
Raise(r, e) == pc' = Set(pc, r, "handler") /\ exc' = Set(exc, r, e)
\* mutant of Return: every return reports an update
ReturnChanged(r, v) == pc' = Set(pc, r, "returned") /\ ret' = Set(ret, r, TRUE)

\* sync_project returns v to main
Return(r, v) == pc' = Set(pc, r, "returned") /\ ret' = Set(ret, r, v)

\* mutant of ResetTargets: the ledger file is removed with the rest
ResetTargetsAll(names) == names

\* mutant of ResetTargets: nothing is removed
ResetTargetsNone(names) == {}

\* the items the reset loop removes
ResetTargets(names) == {n \in names : n \notin version_files}

\* mutant of PassComplete: the loop stops one file early
PassCompleteEarly(idx, assets) == idx >= Len(assets)

\* the download loop is over
PassComplete(idx, assets) == idx > Len(assets)

\* the status the interpreter exits with
ExitCode(has_updates) == IF ~has_updates THEN 0 ELSE 1
UncaughtExitCode == 1

\* the variables of the sync in progress, as main leaves them behind
ClearSync(r) ==
    /\ cand' = Set(cand, r, NoCand)
    /\ todo' = Set(todo, r, {})
    /\ i' = Set(i, r, 1)
    /\ downloaded' = Set(downloaded, r, {})
    /\ prior' = Set(prior, r, Absent)

sync_vars == <<cand, todo, i, downloaded, prior>>
main_vars == <<k, updated_projects, exit_status, log>>
proc_vars == <<runs, killed, run>>

(***************************************************************************)
(* main                                                                    *)
(***************************************************************************)
\* python3 sync.py is started
Start(r) ==
    /\ ~Running(r)
    /\ runs < MaxRuns
    /\ runs' = runs + 1
    /\ run' = Set(run, r, runs + 1)
    /\ pc' = Set(pc, r, "load")
    /\ killed' = Set(killed, r, FALSE)
    /\ k' = Set(k, r, 1)
    /\ ret' = Set(ret, r, FALSE)
    /\ updated_projects' = Set(updated_projects, r, <<>>)
    /\ exit_status' = Set(exit_status, r, -1)
    /\ exc' = Set(exc, r, "")
    /\ log' = Set(log, r, <<>>)
    /\ ClearSync(r)
    /\ UNCHANGED disk
    /\ UNCHANGED call

\* config = load_config(): projects.yaml is read, or the exception ends main
LoadConfig(r) ==
    /\ Running(r) /\ pc[r] = "load"
    /\ \/ pc' = Set(pc, r, "next") /\ UNCHANGED <<exit_status, exc>>
       \/ /\ pc' = Set(pc, r, "exited")
          /\ exc' = Set(exc, r, "OSError")
          /\ exit_status' = Set(exit_status, r, UncaughtExitCode)
    /\ UNCHANGED <<disk, proc_vars, sync_vars, k, ret, updated_projects, log>>
    /\ UNCHANGED call

\* for project in config['projects']: try: sync_project(project), up to the
\* upstream query
SyncProject(r) ==
    /\ Running(r) /\ pc[r] = "next" /\ k[r] <= Len(config)
    /\ prior' = Set(prior, r, Ledger(k[r]))
    /\ LET d == Desc(r) IN
       \/ d.shape = "notmap" /\ Raise(r, "AttributeError") /\ UNCHANGED ret
       \/ d.shape /= "notmap" /\ d.type = "unknown" /\ Return(r, FALSE)
                              /\ UNCHANGED exc
       \/ d.shape = "nokey" /\ d.type /= "unknown" /\ Raise(r, "KeyError")
                            /\ UNCHANGED ret
       \/ /\ d.shape = "ok" /\ d.type /= "unknown"
          /\ pc' = Set(pc, r, "query") /\ UNCHANGED <<ret, exc>>
    /\ UNCHANGED <<disk, proc_vars, main_vars, cand, todo, i, downloaded>>
    /\ UNCHANGED call

\* the loop is over: return len(updated_projects) > 0; exit(0 or 1)
Finish(r) ==
    /\ Running(r) /\ pc[r] = "next" /\ k[r] > Len(config)
    /\ pc' = Set(pc, r, "exited")
    /\ exit_status' = Set(exit_status, r, ExitCode(Len(updated_projects[r]) > 0))
    /\ UNCHANGED <<disk, proc_vars, sync_vars, k, ret, updated_projects, exc, log>>
    /\ UNCHANGED call

\* main after sync_project returned: if ...: updated_projects.append(name)
Returned(r) ==
    /\ Running(r) /\ pc[r] = "returned"
    /\ updated_projects' =
         Set(updated_projects, r,
             IF ret[r] THEN Append(updated_projects[r], k[r]) ELSE updated_projects[r])
    /\ log' = Set(log, r, Append(log[r], IF ret[r] THEN "Changed" ELSE "Unchanged"))
    /\ k' = Set(k, r, k[r] + 1)
    /\ pc' = Set(pc, r, "next")
    /\ ret' = Set(ret, r, FALSE)
    /\ ClearSync(r)
    /\ UNCHANGED <<disk, proc_vars, exit_status, exc>>
    /\ UNCHANGED call

\* except Exception as e: print(f"... {project.get('name', ...)} ...")
Handler(r) ==
    /\ Running(r) /\ pc[r] = "handler"
    /\ \/ /\ Desc(r).shape /= "notmap"
          /\ log' = Set(log, r, Append(log[r], "Raised"))
          /\ k' = Set(k, r, k[r] + 1)
          /\ pc' = Set(pc, r, "next")
          /\ exc' = Set(exc, r, "")
          /\ UNCHANGED exit_status
       \/ /\ Desc(r).shape = "notmap"    \* project.get raises inside the handler
          /\ pc' = Set(pc, r, "exited")
          /\ exit_status' = Set(exit_status, r, UncaughtExitCode)
          /\ UNCHANGED <<log, k, exc>>
    /\ ClearSync(r)
    /\ UNCHANGED <<disk, proc_vars, ret, updated_projects>>
    /\ UNCHANGED call

\* the process is killed from outside: its memory is gone; pc, k and prior
\* keep the record of where it was
Kill(r) ==
    /\ Running(r)
    /\ killed' = Set(killed, r, TRUE)
    /\ cand' = Set(cand, r, NoCand)
    /\ todo' = Set(todo, r, {})
    /\ i' = Set(i, r, 1)
    /\ downloaded' = Set(downloaded, r, {})
    /\ ret' = Set(ret, r, FALSE)
    /\ updated_projects' = Set(updated_projects, r, <<>>)
    /\ exc' = Set(exc, r, "")
    /\ log' = Set(log, r, <<>>)
    /\ UNCHANGED <<disk, runs, pc, run, k, exit_status, prior>>
    /\ UNCHANGED call

\* between invocations the user switches a project between release and action
Reconfigure(n) ==
    /\ \A r \in Instances : ~Running(r)
    /\ runs > 0 /\ runs < MaxRuns
    /\ n \in 1..Len(config)
    /\ LedgerExists(n)
    /\ config[n].shape = "ok" /\ config[n].type \in {"release", "action"}
    /\ config' = [config EXCEPT ![n].type =
                     IF config[n].type = "release" THEN "action" ELSE "release"]
    /\ UNCHANGED <<dir, proc_vars, main_vars, sync_vars, pc, ret, exc>>
    /\ UNCHANGED call


(***************************************************************************)
(* sync_release_project / sync_action_project.  The two functions differ   *)
(* in the adapter they call, in the info_type they pass and in the saved   *)
(* file name; the descriptor's type selects among them.                    *)
(***************************************************************************)
Type(r) == Desc(r).type
\* mutant of T: every project syncs into the first project's directory
TargetOfFirst(r) == 1
T(r) == k[r]                              \* target_dir of the project
Ents(r) == dir[T(r)].ents
Asset(r) == cand[r].assets[i[r]]
save_path(r) == SavedName(Type(r), Asset(r))

\* get_latest_release / get_latest_action_artifact: a candidate, None, or an
\* exception of requests (connection error, timeout, undecodable body)
Query(r) ==
    /\ Running(r) /\ pc[r] = "query"
    /\ \/ \E c \in CandsOf(Desc(r).repo, Type(r)) :
             /\ cand' = Set(cand, r, c)
             /\ pc' = Set(pc, r, "mkdir")
             /\ UNCHANGED <<ret, exc>>
       \/ Return(r, FALSE) /\ UNCHANGED <<cand, exc>>
       \/ Raise(r, "RequestException") /\ UNCHANGED <<cand, ret>>
    /\ UNCHANGED <<disk, proc_vars, main_vars, todo, i, downloaded, prior>>
    /\ UNCHANGED call

\* os.makedirs(target_dir, exist_ok=True)
Makedirs(r) ==
    /\ Running(r) /\ pc[r] = "mkdir"
    /\ \/ /\ dir' = [dir EXCEPT ![T(r)].exists = TRUE]
          /\ pc' = Set(pc, r, "compare")
          /\ UNCHANGED exc
       \/ ~dir[T(r)].exists /\ Raise(r, "OSError") /\ UNCHANGED dir
    /\ UNCHANGED <<config, proc_vars, main_vars, sync_vars, ret>>
    /\ UNCHANGED call

\* if os.path.exists(.version.json): if not needs_update(...): return False
Compare(r) ==
    /\ Running(r) /\ pc[r] = "compare"
    /\ LET nu == IF LedgerExists(T(r))
                 THEN needs_update(Ledger(T(r)), cand[r], Type(r))
                 ELSE "true"
       IN \/ nu = "true" /\ pc' = Set(pc, r, "listdir") /\ UNCHANGED <<ret, exc>>
          \/ nu = "false" /\ Return(r, FALSE) /\ UNCHANGED exc
          \/ nu = "raise" /\ Raise(r, "ValueError") /\ UNCHANGED ret
    /\ UNCHANGED <<disk, proc_vars, main_vars, sync_vars>>
    /\ UNCHANGED call

\* for item in os.listdir(target_dir): the listing is taken once
ListDir(r) ==
    /\ Running(r) /\ pc[r] = "listdir"
    /\ \/ /\ todo' = Set(todo, r, ResetTargets(DOMAIN Ents(r)))
          /\ pc' = Set(pc, r, "reset")
          /\ UNCHANGED exc
       \/ Raise(r, "OSError") /\ UNCHANGED todo
    /\ UNCHANGED <<disk, proc_vars, main_vars, cand, i, downloaded, prior, ret>>
    /\ UNCHANGED call

\* one iteration of the reset loop: os.remove / shutil.rmtree of one item,
\* in the order os.listdir gave, which is arbitrary
ResetStep(r) ==
    /\ Running(r) /\ pc[r] = "reset" /\ todo[r] /= {}
    /\ \E n \in todo[r] :
          \/ /\ n \in DOMAIN Ents(r)
             /\ dir' = WriteDir(T(r), Remove(Ents(r), n))
             /\ todo' = Set(todo, r, todo[r] \ {n})
             /\ UNCHANGED <<pc, exc>>
          \/ /\ n \notin DOMAIN Ents(r)   \* neither isfile nor isdir: skipped
             /\ todo' = Set(todo, r, todo[r] \ {n})
             /\ UNCHANGED <<dir, pc, exc>>
          \/ /\ n \in DOMAIN Ents(r)      \* os.remove or rmtree raises
             /\ Raise(r, "OSError")
             /\ UNCHANGED <<dir, todo>>
    /\ UNCHANGED <<config, proc_vars, main_vars, cand, i, downloaded, prior, ret>>
    /\ UNCHANGED call

ResetDone(r) ==
    /\ Running(r) /\ pc[r] = "reset" /\ todo[r] = {}
    /\ pc' = Set(pc, r, "loop")
    /\ i' = Set(i, r, 1)
    /\ downloaded' = Set(downloaded, r, {})
    /\ UNCHANGED <<disk, proc_vars, main_vars, cand, todo, prior, ret, exc>>
    /\ UNCHANGED call

\* one iteration of the download loop, up to the first write of download_file
Download(r) ==
    /\ Running(r) /\ pc[r] = "loop" /\ ~PassComplete(i[r], cand[r].assets)
    /\ IF ~should_download_asset(Asset(r), asset_patterns(Desc(r)))
       THEN i' = Set(i, r, i[r] + 1) /\ UNCHANGED <<dir, pc, exc>>
       ELSE \/ \* status 200; open(save_path, 'wb') creates or truncates the file
               /\ ~(save_path(r) \in DOMAIN Ents(r) /\ Ents(r)[save_path(r)] = SubDir)
               /\ dir' = WriteDir(T(r), Put(Ents(r), save_path(r), Blob(run[r], FALSE)))
               /\ pc' = Set(pc, r, "dl_write")
               /\ UNCHANGED <<i, exc>>
            \/ \* another status: download_file returns False
               /\ i' = Set(i, r, i[r] + 1)
               /\ UNCHANGED <<dir, pc, exc>>
            \/ \* requests.get raises: connection error, timeout
               /\ Raise(r, "RequestException")
               /\ UNCHANGED <<dir, i>>
            \/ \* status 200; open(save_path, 'wb') raises
               /\ Raise(r, "OSError")
               /\ UNCHANGED <<dir, i>>
    /\ UNCHANGED <<config, proc_vars, main_vars, cand, todo, downloaded, prior, ret>>
    /\ UNCHANGED call

\* for chunk in response.iter_content(): f.write(chunk), and the close;
\* download_file returns True
DownloadWrite(r) ==
    /\ Running(r) /\ pc[r] = "dl_write"
    /\ \/ /\ dir' = IF save_path(r) \in DOMAIN Ents(r)
                    THEN WriteDir(T(r), Put(Ents(r), save_path(r), Blob(run[r], TRUE)))
                    ELSE dir
          /\ downloaded' = Set(downloaded, r, downloaded[r] \cup {i[r]})
          /\ i' = Set(i, r, i[r] + 1)
          /\ pc' = Set(pc, r, "loop")
          /\ UNCHANGED exc
       \/ \* the connection is lost, or the disk is full: the file stays cut short
          /\ \E e \in {"RequestException", "OSError"} : Raise(r, e)
          /\ UNCHANGED <<dir, i, downloaded>>
    /\ UNCHANGED <<config, proc_vars, main_vars, cand, todo, prior, ret>>
    /\ UNCHANGED call

\* the loop is over: save_version_info is called
PassDone(r) ==
    /\ Running(r) /\ pc[r] = "loop" /\ PassComplete(i[r], cand[r].assets)
    /\ pc' = Set(pc, r, "save")
    /\ UNCHANGED <<disk, proc_vars, main_vars, sync_vars, ret, exc>>
    /\ UNCHANGED call

\* save_version_info up to open(version_path, 'w'), which truncates the file
SaveOpen(r) ==
    /\ Running(r) /\ pc[r] = "save"
    /\ \/ /\ dir' = WriteDir(T(r), Put(Ents(r), get_version_info_path, Truncated))
          /\ pc' = Set(pc, r, "save_dump")
          /\ UNCHANGED exc
       \/ Raise(r, "OSError") /\ UNCHANGED dir
    /\ UNCHANGED <<config, proc_vars, main_vars, sync_vars, ret>>
    /\ UNCHANGED call

\* json.dump and the close of the file; then return True
SaveDump(r) ==
    /\ Running(r) /\ pc[r] = "save_dump"
    /\ \/ /\ dir' = WriteDir(T(r), Put(Ents(r), get_version_info_path,
                                      version_info(cand[r], Type(r), run[r])))
          /\ Return(r, TRUE)
          /\ UNCHANGED exc
       \/ Raise(r, "OSError") /\ UNCHANGED <<dir, ret>>   \* disk full
    /\ UNCHANGED <<config, proc_vars, main_vars, sync_vars>>
    /\ UNCHANGED call

(***************************************************************************)
(* Specification: one invocation at a time.                                *)
(***************************************************************************)
Step(r) ==
    \/ Start(r) \/ LoadConfig(r) \/ SyncProject(r) \/ Finish(r)
    \/ Returned(r) \/ Handler(r) \/ Kill(r)
    \/ Query(r) \/ Makedirs(r) \/ Compare(r) \/ ListDir(r)
    \/ ResetStep(r) \/ ResetDone(r) \/ Download(r) \/ DownloadWrite(r)
    \/ PassDone(r) \/ SaveOpen(r) \/ SaveDump(r)

Next == Step(1) \/ \E n \in 1..2 : Reconfigure(n)

Spec == Init /\ [][Next]_vars

(***************************************************************************)
(* Specification: two invocations that overlap (two cron jobs, a manual    *)
(* start during a scheduled one) on the same projects.yaml, which holds    *)
(* one project tracking a small repository.                                *)
(***************************************************************************)
InitConc ==
    /\ config \in [1..1 -> {d \in SmallDescs : d.shape = "ok" /\ d.type /= "unknown"}]
    /\ dir \in [TargetDirs -> {NoDir, JunkDir}]
    /\ dir[2] = NoDir
    /\ InitIdle
    /\ call = NoCall

NextConc == Step(1) \/ Step(2)

SpecConc == InitConc /\ [][NextConc]_vars

(***************************************************************************)
(* Specification of should_download_asset alone: a call with arguments     *)
(* drawn from Calls, as the download loops make it.                        *)
(***************************************************************************)
InitMatch ==
    /\ config = <<>>
    /\ dir = [t \in TargetDirs |-> NoDir]
    /\ InitIdle
    /\ call \in Calls

\* if should_download_asset(name, asset_patterns): ...
Select ==
    /\ call.result = "none"
    /\ call' = [call EXCEPT !.result =
                   IF should_download_asset(call.asset_name,
                                            asset_patterns([patterns |-> call.patterns]))
                   THEN "true" ELSE "false"]
    /\ UNCHANGED prog_vars

NextMatch == Select

SpecMatch == InitMatch /\ [][NextMatch]_vars


(***************************************************************************)
(* Properties.                                                             *)
(***************************************************************************)
ApplyStages == {"listdir", "reset", "loop", "dl_write", "save", "save_dump"}
BeforeSaveOpen == {"query", "mkdir", "compare", "listdir", "reset", "loop",
                   "dl_write", "save"}

\* ledger entry L records candidate c: same kind, same publish timestamp
\* (release) or same run identifier (action)
Records(L, c) ==
    /\ L.t = "json"
    /\ L.type = c.type
    /\ IF c.type = "release" THEN L.published_at = c.published_at
       ELSE L.run_id = c.id

\* the sync in progress got from upstream the candidate its ledger records
SameUpstream(r) == cand[r] /= NoCand /\ Records(prior[r], cand[r])

\* C1: idempotence.  A sync that finds the ledger recording the candidate
\* the upstream reports never reaches the directory reset, the download loop
\* or the ledger save; it returns False (Unchanged), or, when the recorded
\* timestamp does not parse, ends in main's handler, which counts the project
\* as unchanged; and the ledger file stays what it was, sync_time included.
C1_Idempotent ==
    \A r \in Instances :
        SameUpstream(r) =>
            /\ pc[r] \in {"mkdir", "compare", "returned", "handler"}
            /\ pc[r] = "returned" => ~ret[r]
            /\ pc[r] = "handler" =>
                   (cand[r].type = "release" /\ ~Parses(cand[r].published_at))
            /\ Ledger(T(r)) = prior[r]

\* a second invocation finds the ledger an earlier one saved for the same
\* candidate and returns False
C1_Witness ==
    /\ pc[1] = "returned" /\ ~ret[1]
    /\ SameUpstream(1)
    /\ prior[1].sync_time < run[1]

\* C2: crash-safety ordering.  From the query to the call of
\* save_version_info the ledger file is what the sync found (the prior entry,
\* or no file), also in the states in which the process was killed there;
\* and save_version_info runs only when the download loop has visited every
\* file of the candidate.
C2_SaveAfterPass ==
    \A r \in Instances :
        /\ pc[r] \in BeforeSaveOpen => Ledger(k[r]) = prior[r]
        /\ (~killed[r] /\ pc[r] \in {"save", "save_dump"}) =>
               i[r] = Len(cand[r].assets) + 1

\* killed in the download loop, a file of this run on disk, the prior ledger
\* entry still there
C2_Witness ==
    /\ killed[1] /\ pc[1] \in {"loop", "dl_write"}
    /\ prior[1].t = "json"
    /\ Ledger(k[1]) = prior[1]
    /\ \E n \in DOMAIN dir[k[1]].ents :
          dir[k[1]].ents[n].t = "blob" /\ dir[k[1]].ents[n].src = run[1]

\* C3: ledger atomicity.  The ledger file of every target directory is
\* absent or holds a complete entry, in every reachable state.
C3_LedgerAtomic ==
    \A t \in TargetDirs : Ledger(t).t \in {"absent", "json"}

\* the sync of a release project found a release ledger entry, and both
\* publish timestamps parse
ReleaseOnRelease(r) ==
    /\ cand[r] /= NoCand /\ cand[r].type = "release"
    /\ prior[r].t = "json" /\ prior[r].type = "release"
    /\ Parses(prior[r].published_at) /\ Parses(cand[r].published_at)
StrictlyLater(r) == cand[r].published_at.sec > prior[r].published_at.sec

\* C4: release adoption is monotonic in publish time.  A sync of a release
\* project over a release ledger entry returns True (Changed) iff the
\* candidate's publish instant is strictly later than the stored one, and it
\* enters the reset, the download loop and the save (and can fail there) only
\* when it is strictly later; equal instants, also with another tag, and
\* earlier instants return False.
C4_MonotonicRelease ==
    \A r \in Instances :
        ReleaseOnRelease(r) =>
            /\ pc[r] = "returned" => (ret[r] <=> StrictlyLater(r))
            /\ pc[r] \in ApplyStages \cup {"handler"} => StrictlyLater(r)

\* candidate B, published later than the recorded A and under another tag,
\* is applied
C4_Witness ==
    /\ pc[1] = "returned" /\ ret[1]
    /\ ReleaseOnRelease(1)
    /\ StrictlyLater(1)
    /\ cand[1].tag_name /= prior[1].tag_name

\* the sync of an action project found an action ledger entry
ActionOnAction(r) ==
    /\ cand[r] /= NoCand /\ cand[r].type = "action"
    /\ prior[r].t = "json" /\ prior[r].type = "action"

\* C5: run-identity adoption.  A sync of an action project over an action
\* ledger entry returns True (Changed) iff the candidate's run identifier
\* differs from the stored one, whatever the order of the identifiers and of
\* the run numbers, and enters the reset, the download loop and the save only
\* when it differs.
C5_RunIdentity ==
    \A r \in Instances :
        ActionOnAction(r) =>
            /\ pc[r] = "returned" => (ret[r] <=> cand[r].id /= prior[r].run_id)
            /\ pc[r] \in ApplyStages \cup {"handler"} => cand[r].id /= prior[r].run_id

\* a run with a smaller identifier and no smaller run number is applied
C5_Witness ==
    /\ pc[1] = "returned" /\ ret[1]
    /\ ActionOnAction(1)
    /\ cand[1].id < prior[1].run_id
    /\ cand[1].run_number >= prior[1].run_number

\* the ledger entry the sync found is of another kind than the project
KindSwitched(r) ==
    /\ cand[r] /= NoCand
    /\ prior[r].t = "json" /\ prior[r].type /= cand[r].type

\* C6: kind switch forces resync.  A sync that obtains a candidate and finds
\* a ledger entry of the other kind never returns False and is never stopped
\* by the comparison (no timestamp is parsed); when it returns, it returns
\* True and the ledger entry has the project's kind.
C6_KindSwitch ==
    \A r \in Instances :
        KindSwitched(r) =>
            /\ pc[r] = "returned" =>
                   /\ ret[r]
                   /\ Ledger(T(r)).t = "json"
                   /\ Ledger(T(r)).type = Type(r)
            /\ pc[r] = "handler" => exc[r] /= "ValueError"

\* a project synced as release, now an action project, is resynced
C6_Witness ==
    /\ pc[1] = "returned" /\ ret[1]
    /\ KindSwitched(1)
    /\ prior[1].type = "release" /\ Type(1) = "action"

\* C7: a failed fetch of one file is local to that file.  A fetch that
\* fails, by a status other than 200 or by a connection error or timeout,
\* never ends the sync of the project: the exception of a fetch never
\* reaches main's handler, so the later files are attempted, the ledger is
\* saved and True is returned.
C7_FetchFailureLocal ==
    \A r \in Instances :
        ~(pc[r] = "handler" /\ cand[r] /= NoCand /\ exc[r] = "RequestException")

\* the names main appended to updated_projects
Updated(r) == {updated_projects[r][j] : j \in 1..Len(updated_projects[r])}

\* C8: batch isolation.  When main ends (the configuration having been
\* loaded), it has processed every descriptor, once and in order, and no
\* project whose processing raised is in updated_projects.
C8_BatchIsolation ==
    \A r \in Instances :
        (pc[r] = "exited" /\ exc[r] /= "OSError") =>
            /\ Len(log[r]) = Len(config)
            /\ \A j \in 1..Len(log[r]) : j \in Updated(r) => log[r][j] = "Changed"

\* C9: exit status.  The process exits with a non-zero status iff the sync
\* of at least one project returned True (Changed).
C9_ExitStatus ==
    \A r \in Instances :
        pc[r] = "exited" =>
            (exit_status[r] /= 0 <=> \E j \in 1..Len(log[r]) : log[r][j] = "Changed")

\* the indices of the candidate's files the patterns select
Selected(r) ==
    {j \in 1..Len(cand[r].assets) :
        should_download_asset(cand[r].assets[j], asset_patterns(Desc(r)))}

\* C10: applied-update postcondition.  When a sync returns True (Changed),
\* the ledger entry records the candidate (kind, tag and publish timestamp,
\* or run identifier and run number), and the target directory exists and
\* holds exactly the ledger file and the saved files of the selected files
\* that were fetched, each written whole by this run: nothing older remains.
\* A sync that obtained a candidate and found no ledger file returns True
\* when it returns.
C10_AppliedUpdate ==
    \A r \in Instances :
        /\ (pc[r] = "returned" /\ ret[r]) =>
              /\ dir[T(r)].exists
              /\ Ledger(T(r)).t = "json"
              /\ Ledger(T(r)).type = cand[r].type
              /\ IF cand[r].type = "release"
                 THEN /\ Ledger(T(r)).tag_name = cand[r].tag_name
                      /\ Ledger(T(r)).published_at = cand[r].published_at
                 ELSE /\ Ledger(T(r)).run_id = cand[r].id
                      /\ Ledger(T(r)).run_number = cand[r].run_number
              /\ downloaded[r] \subseteq Selected(r)
              /\ DOMAIN Ents(r) =
                    {get_version_info_path} \cup
                    {SavedName(Type(r), cand[r].assets[j]) : j \in downloaded[r]}
              /\ \A n \in (DOMAIN Ents(r)) \ {get_version_info_path} :
                    Ents(r)[n] = Blob(run[r], TRUE)
        /\ (pc[r] = "returned" /\ cand[r] /= NoCand /\ prior[r] = Absent) => ret[r]

\* an update applied over an older entry, with one selected file fetched and
\* another one not
C10_Witness ==
    /\ pc[1] = "returned" /\ ret[1]
    /\ prior[1].t = "json"
    /\ downloaded[1] /= {}
    /\ downloaded[1] /= Selected(1)


\* C11: directory reset scope and timing.  The reset is entered only with a
\* candidate and with no ledger file or with needs_update true; while it runs
\* no file of this run is in the directory and the ledger file is what the
\* sync found; and once it is over every entry other than the ledger file is
\* a file this run wrote, so every older entry was removed before the first
\* new file.
C11_ResetScope ==
    \A r \in Instances :
        /\ (~killed[r] /\ pc[r] \in ApplyStages) =>
              /\ cand[r] /= NoCand
              /\ \/ prior[r] = Absent
                 \/ needs_update(prior[r], cand[r], Type(r)) = "true"
        /\ pc[r] \in {"listdir", "reset"} =>
              /\ Ledger(T(r)) = prior[r]
              /\ \A n \in DOMAIN Ents(r) :
                    ~(Ents(r)[n].t = "blob" /\ Ents(r)[n].src = run[r])
        /\ pc[r] \in {"loop", "dl_write", "save"} =>
              /\ Ledger(T(r)) = prior[r]
              /\ \A n \in (DOMAIN Ents(r)) \ version_files :
                    Ents(r)[n].t = "blob" /\ Ents(r)[n].src = run[r]

\* the reset is over, nothing is left but the ledger entry the sync found
C11_Witness ==
    /\ pc[1] = "loop" /\ i[1] = 1
    /\ prior[1].t = "json"
    /\ Ledger(T(1)) = prior[1]
    /\ DOMAIN Ents(1) = version_files

\* the sync of the project at hand has no candidate: the descriptor is being
\* dispatched, the query is in flight, or it ended without one
NoCandStages == {"next", "query", "returned", "handler"}

\* C12: absent candidate is a no-op.  While a project's sync has no candidate
\* (the query returned None on a non-200 status, an empty release list, no
\* completed run or no artifacts, or requests raised on a timeout), no step
\* creates, changes or removes anything on disk, target_dir and ledger
\* included; sync_project then returns False or ends in main's handler, and
\* main does not add the project to updated_projects.
C12_AbsentNoOp ==
    [][\A r \in Instances :
          (/\ ~killed[r] /\ ~killed'[r]
           /\ pc[r] \in NoCandStages
           /\ cand[r] = NoCand /\ cand'[r] = NoCand) =>
              /\ dir' = dir
              /\ pc'[r] = "returned" => ~ret'[r]
              /\ updated_projects'[r] = updated_projects[r]]_vars

\* the query of a project that has a ledger gave no candidate, and
\* sync_project returned
C12_Witness ==
    /\ pc[1] = "returned" /\ ~killed[1]
    /\ cand[1] = NoCand
    /\ Desc(1).shape = "ok" /\ Type(1) \in {"release", "action"}
    /\ prior[1].t = "json"
    /\ Ledger(T(1)) = prior[1]

\* C13: a filesystem failure leaves the stale ledger authoritative.  When
\* an OSError raised after the update was decided (in the reset, in a file
\* write of the download loop, in the write of the ledger) reaches main's
\* handler, the ledger file is exactly what the sync found.
C13_StaleLedgerKept ==
    \A r \in Instances :
        (pc[r] = "handler" /\ exc[r] = "OSError" /\ cand[r] /= NoCand) =>
            Ledger(T(r)) = prior[r]

\* the match the pattern language is described to have: "*" stands for any
\* substring, every other character for itself, anchored at the start only
RECURSIVE GlobPrefix(_, _)
GlobPrefix(pat, s) ==
    IF pat = <<>> THEN TRUE
    ELSE IF Head(pat) = "*"
    THEN GlobPrefix(Tail(pat), s) \/ (s /= <<>> /\ GlobPrefix(pat, Tail(s)))
    ELSE s /= <<>> /\ Head(pat) = Head(s) /\ GlobPrefix(Tail(pat), Tail(s))

\* C14: pattern selection.  With a configured pattern list, a name is
\* selected exactly when one of the patterns, read with "*" as any substring
\* and every other character as itself, matches a prefix of the name.
C14_GlobSelection ==
    (call.result /= "none" /\ call.patterns /= NoPatterns) =>
        (call.result = "true" <=>
            \E j \in 1..Len(call.patterns) :
                GlobPrefix(call.patterns[j], call.asset_name))

\* C15: default pattern set.  For a descriptor without asset_patterns,
\* should_download_asset selects every name an upstream file list can hold.
C15_DefaultSelectsAll ==
    (call.result /= "none" /\ call.patterns = NoPatterns) => call.result = "true"

\* a name that begins with a period was selected by the default
C15_Witness ==
    /\ call.patterns = NoPatterns
    /\ call.asset_name = <<".", "b">>
    /\ call.result = "true"

\* entry n of target directory t is a file some invocation wrote
Written(t, n) == n \in DOMAIN dir[t].ents /\ dir[t].ents[n].t = "blob"

\* C16: concurrent invocation is unsafe.  With two overlapping invocations,
\* a file an invocation wrote leaves the target directory only in a step of
\* the reset loop of an invocation other than its writer, which found the
\* file in its listing of the directory.
C16_RemovedByOtherReset ==
    [][\A t \in TargetDirs : \A n \in DOMAIN dir[t].ents :
          (Written(t, n) /\ n \notin DOMAIN dir'[t].ents) =>
              \E q \in Instances :
                  /\ pc[q] = "reset" /\ T(q) = t
                  /\ n \in todo[q] /\ todo'[q] = todo[q] \ {n}
                  /\ run[q] /= dir[t].ents[n].src]_vars

\* both invocations decided to update the same target directory; the first
\* one returned True with the ledger recording its candidate, and a file it
\* downloaded is gone from the directory
C16_Witness ==
    /\ pc[1] = "returned" /\ ret[1]
    /\ Records(Ledger(T(1)), cand[1])
    /\ pc[2] \in ApplyStages /\ T(2) = T(1) /\ ~killed[2]
    /\ \E j \in downloaded[1] :
          SavedName(Type(1), cand[1].assets[j]) \notin DOMAIN Ents(1)

\* C17: ledger provenance snapshot.  When sync_project has returned True,
\* every entry of the file list in the ledger is a file of the candidate
\* that the patterns selected and download_file saved in this pass.
C17_LedgerListsDownloaded ==
    \A r \in Instances :
        (pc[r] = "returned" /\ ret[r] /\ Ledger(T(r)).t = "json") =>
            \A j \in 1..Len(Ledger(T(r)).assets) :
                /\ j \in downloaded[r]
                /\ should_download_asset(Ledger(T(r)).assets[j],
                                         asset_patterns(Desc(r)))

\* the sync of the project ended in this invocation with a well-formed
\* candidate, no request or filesystem failure, and every selected file
\* fetched
CleanPass(r) ==
    /\ ~killed[r] /\ pc[r] \in {"returned", "handler"}
    /\ cand[r] /= NoCand
    /\ cand[r].type = "release" => Parses(cand[r].published_at)
    /\ exc[r] \notin {"RequestException", "OSError"}
    /\ (pc[r] = "returned" /\ ret[r]) => downloaded[r] = Selected(r)

\* C18: recovery.  When an invocation finds the ledger of a project missing
\* or cut short, as a kill during an earlier sync leaves it, and its own sync
\* of the project goes through with every fetch succeeding, the ledger then
\* records the candidate and every selected file is in target_dir.
C18_RecoversAfterKill ==
    \A r \in Instances :
        (CleanPass(r) /\ prior[r].t /= "json") =>
            /\ Records(Ledger(T(r)), cand[r])
            /\ \A j \in Selected(r) :
                  SavedName(Type(r), cand[r].assets[j]) \in DOMAIN Ents(r)

\* C19: no path collision.  While download_file writes a selected file, its
\* save path is not the path of a file this pass has already saved, nor the
\* path of the ledger.
C19_NoPathCollision ==
    \A r \in Instances :
        (~killed[r] /\ pc[r] = "dl_write") =>
            /\ save_path(r) /= get_version_info_path
            /\ \A j \in downloaded[r] :
                  SavedName(Type(r), cand[r].assets[j]) /= save_path(r)

====
